---- MODULE Spec2Model ----
(***************************************************************************)
(* The idle-detection timing engine of react-native-idle-timer-detection  *)
(* (src/src/useIdleTimer.tsx): the hook's React state, its refs, the      *)
(* pending setTimeout callbacks and the wall clock, with one action per   *)
(* public operation, listener and timer callback.                         *)
(*                                                                         *)
(* Time is counted in abstract clock units.  `state` is the value of the  *)
(* React state captured by the callbacks of the last render; `phase` is   *)
(* the value most recently passed to setState, which the next render      *)
(* commits.  Callbacks invoked before that render still read `state`.     *)
(***************************************************************************)
EXTENDS Integers, Sequences, FiniteSets

\* ---- bounds of the model ------------------------------------------------
MaxTimeout == 2        \* timeoutMs ranges over 1..MaxTimeout
MaxTime == 4           \* the clock runs from 1 to MaxTime
MaxLate == 1           \* a due timer fires at most MaxLate units late
MaxStale == 1          \* operations run on the callbacks of an outdated render

\* ---- values ---------------------------------------------------------------
Null == -1             \* null of a nullable timestamp (number | null)
StartTime == 1         \* Date.now() when the hook mounts
NoTimer == 0           \* timerIdRef.current === null
MinOption == -1        \* smallest option value tried, below every valid one
NoState == "none"      \* no React state exists: the hook has not returned

IdleTimerState == {"active", "prompting", "idle", "paused"}
AppStateStatus == {"active", "background", "inactive"}

\* The external signals the hook listens for, and the events option.
SignalKind == {"touch", "keyboardDidShow", "keyboardDidHide"}
TouchConfig == {"true", "false", "undefined"}
KeyboardEventConfig == {"hide", "show", "both", "false", "undefined"}
DefaultEvents == [touch |-> "true", keyboard |-> "hide"]

\* What the onPrompt / onActive / onIdle handler passed in the options does
\* when it is notified: nothing of the engine's, or a synchronous call of
\* reset() or pause().  An onActive handler that calls reset() is notified
\* again by that very call, without end, so it is not among the inputs.
Notification == {"onPrompt", "onActive", "onIdle"}
NoHandlers == [n \in Notification |-> "none"]
HandlerConfigs ==
    {h \in [Notification -> {"none", "reset", "pause"}] : h["onActive"] # "reset"}

VARIABLES
    timeoutMs, promptBeforeIdleMs, startOnMount, initiallyPaused,  \* options
    events,                 \* options.events: [touch, keyboard]
    handlers,               \* options.onPrompt / onActive / onIdle
    life,                   \* "new", "failed", "mounted" or "unmounted"
    now,                    \* Date.now()
    state,                  \* React state seen by the current callbacks
    phase,                  \* React state after the pending setState calls
    lastActiveAtMs, lastIdleAtMs,
    timerIdRef,             \* id held by timerIdRef.current, or NoTimer
    timers,                 \* pending setTimeout callbacks: [id, cb, due]
    deadlineAtMsRef, promptAtMsRef,
    remainingOnPauseMsRef, stateBeforePauseRef,
    lastAppState,           \* the AppState listener's lastAppState
    fired,                  \* notifications fired by the last step, in order
    op,                     \* the last step taken
    staleOps,               \* operations run so far on outdated callbacks
    late,                   \* a due timer was left waiting since the last operation
    activeElapsed,          \* time spent outside Paused since the last reset
    quiet,                  \* no operation or signal since construction
    promptCount, idleCount, \* onPrompt / onIdle fired while still quiet
    remBeforePause,         \* remaining time read just before the last pause()
    resumedIdleAt,          \* when Idle is due after a resume() into Prompting
    signal,                 \* the kind of the last external signal, or "none"
    activeLast              \* the last notification fired was onActive

options == <<timeoutMs, promptBeforeIdleMs, startOnMount, initiallyPaused,
             events, handlers>>
engine == <<phase, lastActiveAtMs, lastIdleAtMs, timerIdRef, timers,
            deadlineAtMsRef, promptAtMsRef, remainingOnPauseMsRef,
            stateBeforePauseRef, fired>>
history == <<quiet, promptCount, idleCount, remBeforePause, resumedIdleAt>>
vars == <<options, life, now, state, engine, lastAppState, op, staleOps, late,
          activeElapsed, history, signal, activeLast>>

Max(a, b) == IF a >= b THEN a ELSE b
Min(a, b) == IF a <= b THEN a ELSE b

\* How many times notification n occurs in the sequence f.
Count(f, n) == Cardinality({i \in 1..Len(f) : f[i] = n})

\* Whether onActive is the last notification fired, after a step that fired
\* the sequence f.
LastIsActive(f, before) ==
    IF f = << >> THEN before ELSE f[Len(f)] = "onActive"

\* The engine as one record, so that the callbacks compose as functions.
Eng ==
    [phase |-> phase, lastActiveAtMs |-> lastActiveAtMs,
     lastIdleAtMs |-> lastIdleAtMs, timerIdRef |-> timerIdRef,
     timers |-> timers, deadlineAtMsRef |-> deadlineAtMsRef,
     promptAtMsRef |-> promptAtMsRef,
     remainingOnPauseMsRef |-> remainingOnPauseMsRef,
     stateBeforePauseRef |-> stateBeforePauseRef, fired |-> << >>]

Commit(e) ==
    /\ phase' = e.phase
    /\ lastActiveAtMs' = e.lastActiveAtMs
    /\ lastIdleAtMs' = e.lastIdleAtMs
    /\ timerIdRef' = e.timerIdRef
    /\ timers' = e.timers
    /\ deadlineAtMsRef' = e.deadlineAtMsRef
    /\ promptAtMsRef' = e.promptAtMsRef
    /\ remainingOnPauseMsRef' = e.remainingOnPauseMsRef
    /\ stateBeforePauseRef' = e.stateBeforePauseRef
    /\ fired' = e.fired

\* ---- the callbacks of useIdleTimer ----------------------------------------

\* setTimeout returns an id no live handle holds; ids are only compared.
FreshId(e) ==
    LET used == {t.id : t \in e.timers} \cup {e.timerIdRef}
    IN  CHOOSE i \in 1..(Cardinality(used) + 1) :
            /\ i \notin used
            /\ \A j \in 1..(i - 1) : j \in used

\* timerIdRef.current = setTimeout(cb, delay)
setTimeout(e, cb, delay) ==
    LET id == FreshId(e)
    IN  [e EXCEPT !.timers = @ \cup {[id |-> id, cb |-> cb, due |-> now + delay]},
                  !.timerIdRef = id]

clearTimer(e) ==
    IF e.timerIdRef # NoTimer
    THEN [e EXCEPT !.timers = {t \in @ : t.id # e.timerIdRef},
                   !.timerIdRef = NoTimer]
    ELSE e

RECURSIVE reset(_, _), pause(_, _)

\* onXRef.current?.(): the handler is notified and runs to completion; the
\* reset or pause it calls is the one of the last render.
notify(e, n) ==
    LET f == [e EXCEPT !.fired = Append(@, n)]
    IN  IF handlers[n] = "reset" THEN reset(f, state)
        ELSE IF handlers[n] = "pause" THEN pause(f, state)
        ELSE f

\* Mutant: entering Idle does not record lastIdleAtMs.
enterIdle_NoTimestamp(e) ==
    LET c == clearTimer(e)
    IN  notify([c EXCEPT !.phase = "idle"], "onIdle")

enterIdle(e) ==
    LET c == clearTimer(e)
    IN  notify([c EXCEPT !.phase = "idle", !.lastIdleAtMs = now], "onIdle")

\* Mutant: entering Prompting arms no idle timer.
enterPrompting_NoIdleTimer(e) ==
    LET p == notify([e EXCEPT !.phase = "prompting"], "onPrompt")
        remainingToIdle == p.deadlineAtMsRef - now
    IN  IF remainingToIdle > 0 THEN p ELSE enterIdle(p)

\* Mutant: the idle timer armed on entering Prompting runs the whole timeout.
enterPrompting_FullTimeout(e) ==
    LET p == notify([e EXCEPT !.phase = "prompting"], "onPrompt")
    IN  setTimeout(p, "enterIdle", timeoutMs)

enterPrompting(e) ==
    LET p == notify([e EXCEPT !.phase = "prompting"], "onPrompt")
        remainingToIdle == p.deadlineAtMsRef - now
    IN  IF remainingToIdle > 0
        THEN setTimeout(p, "enterIdle", remainingToIdle)
        ELSE enterIdle(p)

\* Mutant: the prompt timer is armed whatever promptBeforeIdleMs is.
scheduleNext_AlwaysPrompt(e, fromState) ==
    LET c == clearTimer(e)
        timeToPrompt == c.promptAtMsRef - now
        timeToIdle == c.deadlineAtMsRef - now
    IN  IF fromState = "active"
        THEN IF timeToPrompt > 0
             THEN setTimeout(c, "enterPrompting", timeToPrompt)
             ELSE IF timeToIdle > 0 THEN enterPrompting(c) ELSE enterIdle(c)
        ELSE IF timeToIdle > 0
             THEN setTimeout(c, "enterIdle", timeToIdle)
             ELSE enterIdle(c)

scheduleNext(e, fromState) ==
    LET c == clearTimer(e)
        timeToPrompt == c.promptAtMsRef - now
        timeToIdle == c.deadlineAtMsRef - now
    IN  IF fromState = "active" /\ promptBeforeIdleMs > 0
        THEN IF timeToPrompt > 0
             THEN setTimeout(c, "enterPrompting", timeToPrompt)
             ELSE IF timeToIdle > 0 THEN enterPrompting(c) ELSE enterIdle(c)
        ELSE IF timeToIdle > 0
             THEN setTimeout(c, "enterIdle", timeToIdle)
             ELSE enterIdle(c)

\* Mutant: reset() forgets to re-arm the timer.
reset_NoRearm(e, s) ==
    LET c == clearTimer(e)
    IN  [c EXCEPT !.deadlineAtMsRef = now + timeoutMs,
                  !.promptAtMsRef = now + timeoutMs - promptBeforeIdleMs,
                  !.lastActiveAtMs = now,
                  !.phase = "active",
                  !.fired = IF s = "idle" \/ s = "prompting"
                            THEN Append(@, "onActive") ELSE @]

\* s is the `state` the callback closed over.
reset(e, s) ==
    LET c == clearTimer(e)
        d == [c EXCEPT !.deadlineAtMsRef = now + timeoutMs,
                       !.promptAtMsRef = now + timeoutMs - promptBeforeIdleMs,
                       !.lastActiveAtMs = now,
                       !.phase = "active"]
        a == IF s = "idle" \/ s = "prompting"
             THEN notify(d, "onActive")
             ELSE d
    IN  scheduleNext(a, "active")

\* Mutant: pause() stores the remaining time without clamping it at 0.
pause_Unclamped(e, s) ==
    IF s = "paused"
    THEN e
    ELSE LET c == clearTimer(e)
         IN  [c EXCEPT !.remainingOnPauseMsRef = c.deadlineAtMsRef - now,
                       !.stateBeforePauseRef = s,
                       !.phase = "paused"]

pause(e, s) ==
    IF s = "paused"
    THEN e
    ELSE LET c == clearTimer(e)
             remaining == c.deadlineAtMsRef - now
         IN  [c EXCEPT !.remainingOnPauseMsRef = Max(0, remaining),
                       !.stateBeforePauseRef = s,
                       !.phase = "paused"]

\* Mutant: resume() computes the prompt time as reset() does.
resume_PromptAsInReset(e, s) ==
    IF s # "paused"
    THEN e
    ELSE LET remaining == e.remainingOnPauseMsRef
             prevStateBeforePause == e.stateBeforePauseRef
             d == [e EXCEPT !.deadlineAtMsRef = now + remaining,
                            !.promptAtMsRef =
                                now + timeoutMs - promptBeforeIdleMs,
                            !.lastActiveAtMs = now]
         IN  IF remaining <= 0
             THEN enterIdle(d)
             ELSE IF /\ promptBeforeIdleMs > 0
                     /\ remaining <= promptBeforeIdleMs
                     /\ prevStateBeforePause # "idle"
                  THEN setTimeout(
                           notify([d EXCEPT !.phase = "prompting"], "onPrompt"),
                           "enterIdle", remaining)
                  ELSE scheduleNext([d EXCEPT !.phase = "active"], "active")

\* Mutant: resume() does not test whether the remaining time has run out.
resume_NoExpiredCheck(e, s) ==
    IF s # "paused"
    THEN e
    ELSE LET remaining == e.remainingOnPauseMsRef
             prevStateBeforePause == e.stateBeforePauseRef
             d == [e EXCEPT !.deadlineAtMsRef = now + remaining,
                            !.promptAtMsRef = now + remaining
                                - Min(promptBeforeIdleMs, remaining),
                            !.lastActiveAtMs = now]
         IN  IF /\ promptBeforeIdleMs > 0
                /\ remaining <= promptBeforeIdleMs
                /\ prevStateBeforePause # "idle"
             THEN setTimeout(
                      notify([d EXCEPT !.phase = "prompting"], "onPrompt"),
                      "enterIdle", remaining)
             ELSE scheduleNext([d EXCEPT !.phase = "active"], "active")

resume(e, s) ==
    IF s # "paused"
    THEN e
    ELSE LET remaining == e.remainingOnPauseMsRef
             prevStateBeforePause == e.stateBeforePauseRef
             d == [e EXCEPT !.deadlineAtMsRef = now + remaining,
                            !.promptAtMsRef = now + remaining
                                - Min(promptBeforeIdleMs, remaining),
                            !.lastActiveAtMs = now]
         IN  IF remaining <= 0
             THEN enterIdle(d)
             ELSE IF /\ promptBeforeIdleMs > 0
                     /\ remaining <= promptBeforeIdleMs
                     /\ prevStateBeforePause # "idle"
                  THEN setTimeout(
                           notify([d EXCEPT !.phase = "prompting"], "onPrompt"),
                           "enterIdle", remaining)
                  ELSE scheduleNext([d EXCEPT !.phase = "active"], "active")

\* Mutant: the remaining time is not clamped at 0.
getRemainingTimeMs_Unclamped(e, s) ==
    IF s = "paused" THEN e.remainingOnPauseMsRef
    ELSE IF s = "idle" THEN 0
    ELSE e.deadlineAtMsRef - now

getRemainingTimeMs(e, s) ==
    IF s = "paused" THEN e.remainingOnPauseMsRef
    ELSE IF s = "idle" THEN 0
    ELSE Max(0, e.deadlineAtMsRef - now)

handleUserActivity(e, s) ==
    IF s = "paused" THEN e ELSE reset(e, s)

\* Mutant: the listener pauses on every background or inactive signal.
onAppStateChange_PausesWheneverHidden(e, s, last, nextAppState) ==
    IF nextAppState \in {"background", "inactive"}
    THEN pause(e, s)
    ELSE IF last \in {"background", "inactive"} /\ nextAppState = "active"
         THEN resume(e, s)
         ELSE e

\* Mutant: an unset events.keyboard subscribes to no keyboard event.
listens_UnsetKeyboardOff(kind) ==
    IF kind = "touch"
    THEN events.touch # "false"
    ELSE IF events.keyboard = "false"
         THEN FALSE
         ELSE IF kind = "keyboardDidShow"
              THEN events.keyboard = "show" \/ events.keyboard = "both"
              ELSE events.keyboard = "hide" \/ events.keyboard = "both"

\* Whether a signal of this kind reaches handleUserActivity: the touch
\* handler tests events?.touch !== false, and the keyboard effect subscribes
\* to the show and hide events according to events?.keyboard.
listens(kind) ==
    IF kind = "touch"
    THEN events.touch # "false"
    ELSE IF events.keyboard = "false"
         THEN FALSE
         ELSE IF kind = "keyboardDidShow"
              THEN events.keyboard = "show" \/ events.keyboard = "both"
              ELSE \/ events.keyboard = "hide"
                   \/ events.keyboard = "both"
                   \/ events.keyboard = "undefined"

\* The body of the AppState "change" listener, before lastAppState = nextAppState.
onAppStateChange(e, s, last, nextAppState) ==
    IF last = "active" /\ nextAppState \in {"background", "inactive"}
    THEN pause(e, s)
    ELSE IF last \in {"background", "inactive"} /\ nextAppState = "active"
         THEN resume(e, s)
         ELSE e

\* The callback a pending timer runs.
timerCallback(e, cb) ==
    IF cb = "enterPrompting" THEN enterPrompting(e) ELSE enterIdle(e)

\* ---- the state after construction and the mount effect --------------------
\* Mutant: promptBeforeIdleMs equal to timeoutMs is let through.
ValidOptions_AllowsEqual(t, p) == ~(t <= 0) /\ ~(p < 0) /\ ~(p > t)

ValidOptions(t, p) == ~(t <= 0) /\ ~(p < 0) /\ ~(p >= t)

\* Mutant: only initiallyPaused decides the initial state.
getInitialState_IgnoresStartOnMount(initPaused, start) ==
    IF initPaused THEN "paused" ELSE "active"

getInitialState(initPaused, start) ==
    IF initPaused \/ ~start THEN "paused" ELSE "active"

\* Mutant: remainingOnPauseMsRef starts at 0 instead of timeoutMs.
Mounted_ZeroRemaining ==
    LET e0 == [phase |-> getInitialState(initiallyPaused, startOnMount),
               lastActiveAtMs |->
                   IF startOnMount /\ ~initiallyPaused THEN now ELSE Null,
               lastIdleAtMs |-> Null,
               timerIdRef |-> NoTimer,
               timers |-> {},
               deadlineAtMsRef |-> 0,
               promptAtMsRef |-> 0,
               remainingOnPauseMsRef |-> 0,
               stateBeforePauseRef |-> "active",
               fired |-> << >>]
    IN  IF startOnMount /\ ~initiallyPaused
        THEN scheduleNext(
                 [e0 EXCEPT !.deadlineAtMsRef = now + timeoutMs,
                            !.promptAtMsRef =
                                now + timeoutMs - promptBeforeIdleMs],
                 "active")
        ELSE e0

\* The refs and state useIdleTimer creates, after the mount effect has run.
Mounted ==
    LET e0 == [phase |-> getInitialState(initiallyPaused, startOnMount),
               lastActiveAtMs |->
                   IF startOnMount /\ ~initiallyPaused THEN now ELSE Null,
               lastIdleAtMs |-> Null,
               timerIdRef |-> NoTimer,
               timers |-> {},
               deadlineAtMsRef |-> 0,
               promptAtMsRef |-> 0,
               remainingOnPauseMsRef |-> timeoutMs,
               stateBeforePauseRef |-> "active",
               fired |-> << >>]
    IN  IF startOnMount /\ ~initiallyPaused
        THEN scheduleNext(
                 [e0 EXCEPT !.deadlineAtMsRef = now + timeoutMs,
                            !.promptAtMsRef =
                                now + timeoutMs - promptBeforeIdleMs],
                 "active")
        ELSE e0

\* The two flags are read only in the test startOnMount && !initiallyPaused
\* (lines 47, 54, 363): a hook that does not start on mount is the initially
\* paused one, so Init takes startOnMount as set and SpecConstruct below
\* constructs all four combinations.
InitEngine ==
    /\ timeoutMs \in 1..MaxTimeout
    /\ promptBeforeIdleMs \in 0..MaxTimeout
    /\ ValidOptions(timeoutMs, promptBeforeIdleMs)
    /\ startOnMount = TRUE
    /\ initiallyPaused \in BOOLEAN
    /\ life = "mounted"
    /\ now = StartTime
    /\ state = getInitialState(initiallyPaused, startOnMount)
    /\ lastAppState = "active"
    /\ op = "mount"
    /\ staleOps = 0
    /\ late = FALSE
    /\ activeElapsed = 0
    /\ quiet = TRUE
    /\ promptCount = 0
    /\ idleCount = 0
    /\ remBeforePause = Null
    /\ resumedIdleAt = Null
    /\ activeLast = FALSE
    /\ LET m == Mounted
       IN  /\ phase = m.phase
           /\ lastActiveAtMs = m.lastActiveAtMs
           /\ lastIdleAtMs = m.lastIdleAtMs
           /\ timerIdRef = m.timerIdRef
           /\ timers = m.timers
           /\ deadlineAtMsRef = m.deadlineAtMsRef
           /\ promptAtMsRef = m.promptAtMsRef
           /\ remainingOnPauseMsRef = m.remainingOnPauseMsRef
           /\ stateBeforePauseRef = m.stateBeforePauseRef
           /\ fired = m.fired

\* The hook mounted with the default events option.
Init ==
    /\ events = DefaultEvents
    /\ handlers = NoHandlers
    /\ signal = "none"
    /\ InitEngine

\* The hook mounted with any events option.
InitEvents ==
    /\ events \in [touch : TouchConfig, keyboard : KeyboardEventConfig]
    /\ handlers = NoHandlers
    /\ signal = "none"
    /\ InitEngine

\* The hook mounted with handlers that may call back into the engine.
InitReentrant ==
    /\ events = DefaultEvents
    /\ handlers \in HandlerConfigs
    /\ signal = "none"
    /\ InitEngine

\* Before useIdleTimer(options) is called: any options, nothing created yet.
InitConstruct ==
    /\ timeoutMs \in MinOption..MaxTimeout
    /\ promptBeforeIdleMs \in MinOption..MaxTimeout
    /\ startOnMount \in BOOLEAN
    /\ initiallyPaused \in BOOLEAN
    /\ events = DefaultEvents
    /\ handlers = NoHandlers
    /\ signal = "none"
    /\ life = "new"
    /\ now = StartTime
    /\ state = NoState
    /\ phase = NoState
    /\ lastActiveAtMs = Null
    /\ lastIdleAtMs = Null
    /\ timerIdRef = NoTimer
    /\ timers = {}
    /\ deadlineAtMsRef = 0
    /\ promptAtMsRef = 0
    /\ remainingOnPauseMsRef = 0
    /\ stateBeforePauseRef = NoState
    /\ lastAppState = "active"
    /\ fired = << >>
    /\ op = "new"
    /\ staleOps = 0
    /\ late = FALSE
    /\ activeElapsed = 0
    /\ quiet = TRUE
    /\ promptCount = 0
    /\ idleCount = 0
    /\ remBeforePause = Null
    /\ resumedIdleAt = Null
    /\ activeLast = FALSE

\* ---- actions --------------------------------------------------------------

\* An operation invoked through the callbacks of the last render.
Operation(name, e) ==
    /\ life = "mounted"
    /\ state # phase => staleOps < MaxStale
    /\ Commit(e)
    /\ op' = name
    /\ staleOps' = IF state # phase THEN staleOps + 1 ELSE staleOps
    /\ quiet' = FALSE
    /\ promptCount' = 0
    /\ idleCount' = 0
    /\ late' = FALSE
    /\ activeLast' = LastIsActive(fired', activeLast)
    /\ UNCHANGED <<options, life, now, state>>

Reset ==
    /\ Operation("reset", reset(Eng, state))
    /\ activeElapsed' = 0
    /\ remBeforePause' = Null
    /\ resumedIdleAt' = Null
    /\ UNCHANGED <<lastAppState, signal>>

Pause ==
    /\ Operation("pause", pause(Eng, state))
    /\ remBeforePause' =
           IF phase # "paused" THEN getRemainingTimeMs(Eng, phase) ELSE Null
    /\ resumedIdleAt' = Null
    /\ UNCHANGED <<lastAppState, activeElapsed, signal>>

Resume ==
    /\ Operation("resume", resume(Eng, state))
    /\ resumedIdleAt' =
           IF /\ phase = "paused"
              /\ promptBeforeIdleMs > 0
              /\ 0 < remainingOnPauseMsRef
              /\ remainingOnPauseMsRef <= promptBeforeIdleMs
              /\ stateBeforePauseRef # "idle"
           THEN now + remainingOnPauseMsRef
           ELSE Null
    /\ UNCHANGED <<lastAppState, activeElapsed, remBeforePause, signal>>

\* A touch or keyboard event of an enabled kind.
ActivityPulse ==
    /\ {kind \in SignalKind : listens(kind)} # {}
    /\ Operation("pulse", handleUserActivity(Eng, state))
    /\ activeElapsed' = IF state = "paused" THEN activeElapsed ELSE 0
    /\ remBeforePause' = Null
    /\ resumedIdleAt' = Null
    /\ UNCHANGED <<lastAppState, signal>>

AppStateChange ==
    \E nextAppState \in AppStateStatus :
        /\ Operation("appstate",
                     onAppStateChange(Eng, state, lastAppState, nextAppState))
        /\ lastAppState' = nextAppState
        /\ remBeforePause' = Null
        /\ resumedIdleAt' = Null
        /\ UNCHANGED <<activeElapsed, signal>>

\* A touch, keyboardDidShow or keyboardDidHide signal, of an enabled kind or
\* not: only an enabled kind invokes handleUserActivity.
Signal ==
    \E kind \in SignalKind :
        /\ signal' = kind
        /\ IF listens(kind)
           THEN /\ Operation("signal", handleUserActivity(Eng, state))
                /\ activeElapsed' = IF state = "paused" THEN activeElapsed ELSE 0
                /\ remBeforePause' = Null
                /\ resumedIdleAt' = Null
                /\ UNCHANGED lastAppState
           ELSE /\ life = "mounted"
                /\ op' = "signal"
                /\ fired' = << >>
                /\ UNCHANGED <<options, life, now, state, phase, lastActiveAtMs,
                               lastIdleAtMs, timerIdRef, timers,
                               deadlineAtMsRef, promptAtMsRef,
                               remainingOnPauseMsRef, stateBeforePauseRef,
                               lastAppState, staleOps, late, activeElapsed,
                               history, activeLast>>

\* A pending timer whose delay has elapsed runs its callback.
TimerFire ==
    \E t \in timers :
        /\ t.due <= now
        /\ Commit(timerCallback([Eng EXCEPT !.timers = @ \ {t}], t.cb))
        /\ op' = "timer"
        /\ promptCount' = IF quiet THEN promptCount + Count(fired', "onPrompt") ELSE 0
        /\ idleCount' = IF quiet THEN idleCount + Count(fired', "onIdle") ELSE 0
        /\ activeLast' = LastIsActive(fired', activeLast)
        /\ UNCHANGED <<options, life, now, state, lastAppState, staleOps,
                       late, activeElapsed, quiet, remBeforePause,
                       resumedIdleAt, signal>>

\* React re-renders: the callbacks now close over the committed state.
Render ==
    /\ life = "mounted"
    /\ state # phase
    /\ state' = phase
    /\ op' = "render"
    /\ fired' = << >>
    /\ UNCHANGED <<options, life, now, phase, lastActiveAtMs, lastIdleAtMs,
                   timerIdRef, timers, deadlineAtMsRef, promptAtMsRef,
                   remainingOnPauseMsRef, stateBeforePauseRef, lastAppState,
                   staleOps, late, activeElapsed, history, signal, activeLast>>

\* One unit of wall-clock time passes, between event-loop turns.
Tick ==
    /\ now < MaxTime
    /\ life = "unmounted" \/ (life = "mounted" /\ state = phase)
    /\ \A t \in timers : now < t.due + MaxLate
    /\ now' = now + 1
    /\ late' = (late \/ \E t \in timers : t.due <= now)
    /\ activeElapsed' = IF phase = "paused" THEN activeElapsed
                        ELSE Min(activeElapsed + 1, timeoutMs)
    /\ op' = "tick"
    /\ fired' = << >>
    /\ remBeforePause' = Null
    /\ UNCHANGED <<options, life, state, phase, lastActiveAtMs, lastIdleAtMs,
                   timerIdRef, timers, deadlineAtMsRef, promptAtMsRef,
                   remainingOnPauseMsRef, stateBeforePauseRef, lastAppState,
                   staleOps, quiet, promptCount, idleCount, resumedIdleAt,
                   signal, activeLast>>

\* The component unmounts: the cleanup of the mount effect runs, the
\* AppState listener is removed and React discards the component's state.
Unmount ==
    /\ life = "mounted"
    /\ life' = "unmounted"
    /\ Commit(clearTimer(Eng))
    /\ state' = NoState
    /\ lastAppState' = "active"
    /\ op' = "unmount"
    /\ staleOps' = 0
    /\ late' = FALSE
    /\ activeElapsed' = 0
    /\ quiet' = FALSE
    /\ promptCount' = 0
    /\ idleCount' = 0
    /\ remBeforePause' = Null
    /\ resumedIdleAt' = Null
    /\ activeLast' = FALSE
    /\ UNCHANGED <<options, now, signal>>

\* useIdleTimer(options) is called: it throws on invalid options, and
\* otherwise creates the state and refs and runs the mount effect.
Construct ==
    /\ life = "new"
    /\ IF ValidOptions(timeoutMs, promptBeforeIdleMs)
       THEN /\ life' = "mounted"
            /\ state' = getInitialState(initiallyPaused, startOnMount)
            /\ Commit(Mounted)
            /\ op' = "mount"
       ELSE /\ life' = "failed"
            /\ op' = "throw"
            /\ UNCHANGED <<state, engine>>
    /\ UNCHANGED <<options, now, lastAppState, staleOps, late, activeElapsed,
                   history, signal, activeLast>>

Next ==
    \/ Reset
    \/ Pause
    \/ Resume
    \/ ActivityPulse
    \/ AppStateChange
    \/ TimerFire
    \/ Render
    \/ Tick
    \/ Unmount

Spec == Init /\ [][Next]_vars

\* The same engine when every operation runs on the callbacks of an
\* up-to-date render (React has committed the previous state update).
NextFresh ==
    \/ state = phase /\ (Reset \/ Pause \/ Resume \/ ActivityPulse \/ AppStateChange)
    \/ TimerFire
    \/ Render
    \/ Tick
    \/ Unmount

SpecFresh == Init /\ [][NextFresh]_vars

\* The engine with handlers that call back into it, every operation running
\* on the callbacks of an up-to-date render.
SpecReentrant == InitReentrant /\ [][NextFresh]_vars

\* The engine under any events option, driven by the three kinds of signal
\* in place of the pulses of an enabled kind.
NextEvents ==
    \/ state = phase /\ (Signal \/ Reset \/ Pause \/ Resume \/ AppStateChange)
    \/ TimerFire
    \/ Render
    \/ Tick
    \/ Unmount

SpecEvents == InitEvents /\ [][NextEvents]_vars

\* The call of useIdleTimer(options), with options that need not be valid,
\* and the engine it constructs.
NextConstruct ==
    \/ Construct
    \/ NextFresh

SpecConstruct == InitConstruct /\ [][NextConstruct]_vars

\* The engine with its environment's guarantees: React re-renders after a
\* state update, time advances, and a timer whose delay has elapsed runs.
\* An operation is invoked only while the countdown it may start ends
\* within MaxTime.
NextLive ==
    \/ /\ now + timeoutMs <= MaxTime
       /\ (Reset \/ Pause \/ Resume \/ ActivityPulse \/ AppStateChange)
    \/ TimerFire
    \/ Render
    \/ Tick
    \/ Unmount

SpecLive ==
    /\ Init
    /\ [][NextLive]_vars
    /\ WF_vars(Tick)
    /\ WF_vars(TimerFire)
    /\ WF_vars(Render)

\* ---- observations ----------------------------------------------------------
Fired(n) == \E i \in 1..Len(fired) : fired[i] = n

\* What getRemainingTimeMs() returns once the pending state update is rendered.
RemainingTimeMs == getRemainingTimeMs(Eng, phase)

\* ---- C1 -------------------------------------------------------------------
\* C1: in every reachable state at most one timer callback is pending, and
\* right after pause() completes, or right after the phase becomes Idle, no
\* timer callback is pending.
C1_AtMostOnePendingTimer ==
    /\ Cardinality(timers) <= 1
    /\ op = "pause" => timers = {}
    /\ Fired("onIdle") /\ phase = "idle" => timers = {}

\* ---- C2 -------------------------------------------------------------------
\* C2: the engine enters Idle (fires onIdle) only when the time spent outside
\* the Paused phase since the most recent reset or activity pulse (or since
\* construction) is at least timeoutMs.
C2_PausedTimeNotCounted ==
    Fired("onIdle") => activeElapsed >= timeoutMs

\* ---- C3 -------------------------------------------------------------------
\* C3: while the phase is Paused, the passage of time (a tick, a timer
\* callback, a render) leaves the phase Paused and getRemainingTimeMs()
\* unchanged and fires no notification; resume() leaves getRemainingTimeMs()
\* at the frozen value; afterwards each unit of time takes one unit off it.
C3_FrozenWhilePaused ==
    [][/\ phase = "paused" /\ op' \in {"tick", "timer", "render"}
          => /\ phase' = "paused"
             /\ RemainingTimeMs' = RemainingTimeMs
             /\ fired' = << >>
       /\ phase = "paused" /\ op' = "resume"
          => RemainingTimeMs' = RemainingTimeMs
       /\ phase \in {"active", "prompting"} /\ op' = "tick"
          => RemainingTimeMs' = Max(0, RemainingTimeMs - 1)]_vars

\* ---- C4 -------------------------------------------------------------------
\* C4: pause() from a non-Paused state followed by resume() with no time
\* elapsing in between leaves getRemainingTimeMs() at the value it had just
\* before the pause.
C4_PauseResumeRoundTrip ==
    op = "resume" /\ remBeforePause # Null => RemainingTimeMs = remBeforePause

\* ---- C5 -------------------------------------------------------------------
\* C5: with promptBeforeIdleMs > 0, resume() of an engine paused with
\* 0 < r <= promptBeforeIdleMs (not paused from Idle) enters Prompting at once
\* and fires onPrompt, and with no operation in between and timers firing on
\* time the engine is Prompting until r units later and Idle from then on.
C5_ResumeInsidePromptWindow ==
    resumedIdleAt # Null =>
        /\ op = "resume" => phase = "prompting" /\ Fired("onPrompt")
        /\ ~late =>
              \/ phase = "prompting" /\ now <= resumedIdleAt
              \/ phase = "idle" /\ lastIdleAtMs = resumedIdleAt

\* ---- C6 -------------------------------------------------------------------
\* C6: with promptBeforeIdleMs > 0, an engine started Active at StartTime and
\* left alone (timers firing on time) is Active before
\* StartTime + timeoutMs - promptBeforeIdleMs, turns Prompting then, firing
\* onPrompt once, and turns Idle at StartTime + timeoutMs, firing onIdle once.
C6_ActivePromptingIdle ==
    quiet /\ ~late /\ startOnMount /\ ~initiallyPaused /\ promptBeforeIdleMs > 0
    => LET promptAt == StartTime + timeoutMs - promptBeforeIdleMs
           idleAt == StartTime + timeoutMs
       IN  /\ phase # "paused"
           /\ now < promptAt => phase = "active"
           /\ phase = "active"
              => now <= promptAt /\ promptCount = 0 /\ idleCount = 0
           /\ phase = "prompting"
              => /\ promptAt <= now /\ now <= idleAt
                 /\ promptCount = 1 /\ idleCount = 0
           /\ phase = "idle"
              => /\ lastIdleAtMs = idleAt /\ now >= idleAt
                 /\ promptCount = 1 /\ idleCount = 1

C6_Witness ==
    /\ quiet /\ ~late /\ startOnMount /\ ~initiallyPaused
    /\ promptBeforeIdleMs > 0
    /\ phase = "idle" /\ promptCount = 1 /\ idleCount = 1

\* ---- C7 -------------------------------------------------------------------
\* C7: with promptBeforeIdleMs = 0 an engine started Active reports
\* getRemainingTimeMs() = timeoutMs right after construction; left alone, once
\* timeoutMs have elapsed getRemainingTimeMs() is 0 and, the timer having
\* fired, the phase is Idle (and not before).
C7_IdleAfterTimeout ==
    quiet /\ startOnMount /\ ~initiallyPaused /\ promptBeforeIdleMs = 0
    => LET idleAt == StartTime + timeoutMs
       IN  /\ op = "mount" => RemainingTimeMs = timeoutMs /\ phase = "active"
           /\ now >= idleAt => RemainingTimeMs = 0
           /\ now >= idleAt /\ (\A t \in timers : t.due > now)
              => phase = "idle" /\ idleCount = 1
           /\ now > idleAt /\ ~late => phase = "idle"
           /\ now < idleAt => phase = "active" /\ idleCount = 0

C7_Witness ==
    /\ quiet /\ startOnMount /\ ~initiallyPaused /\ promptBeforeIdleMs = 0
    /\ now >= StartTime + timeoutMs
    /\ phase = "idle" /\ RemainingTimeMs = 0 /\ timeoutMs > 1

\* ---- C8 -------------------------------------------------------------------
\* The timer timerIdRef holds is pending, runs cb and is due at time due.
Armed(cb, due) ==
    \E t \in timers : t.id = timerIdRef /\ t.cb = cb /\ t.due = due

C9_OnActiveOnlyFromIdleOrPrompting ==
    [][op' \in {"reset", "pulse"}
       => (Fired("onActive")' <=> phase \in {"idle", "prompting"})]_vars

\* ---- C10 ------------------------------------------------------------------
\* C10: an activity pulse while the phase is Paused changes nothing and fires
\* nothing; in any other phase it does what reset() does.
C10_PulseIgnoredWhilePaused ==
    [][op' = "pulse"
       => IF phase = "paused"
          THEN /\ UNCHANGED <<phase, remainingOnPauseMsRef, stateBeforePauseRef,
                              deadlineAtMsRef, promptAtMsRef, lastActiveAtMs,
                              lastIdleAtMs, timerIdRef, timers>>
               /\ fired' = << >>
          ELSE Commit(reset(Eng, state))]_vars

\* ---- C11 ------------------------------------------------------------------
\* C11: pause() called while the phase is already Paused changes nothing
\* (remainingOnPauseMs, phaseBeforePause and the phase stay as the first
\* pause() left them), and resume() called while the phase is not Paused
\* changes no state, arms no timer and fires no notification.
C11_PauseResumeIdempotent ==
    [][/\ op' = "pause" /\ phase = "paused"
          => /\ UNCHANGED <<phase, remainingOnPauseMsRef, stateBeforePauseRef,
                            deadlineAtMsRef, promptAtMsRef, lastActiveAtMs,
                            lastIdleAtMs, timers>>
             /\ fired' = << >>
       /\ op' = "resume" /\ phase # "paused"
          => /\ UNCHANGED <<phase, remainingOnPauseMsRef, stateBeforePauseRef,
                            deadlineAtMsRef, promptAtMsRef, lastActiveAtMs,
                            lastIdleAtMs, timerIdRef, timers>>
             /\ fired' = << >>]_vars

\* ---- C12 ------------------------------------------------------------------
\* C12: in every reachable state getRemainingTimeMs() returns a value between
\* 0 and timeoutMs, whether it is read through the callbacks of the last
\* render or after the pending update is rendered; also while Paused and when
\* the clock has passed the deadline before the timer fired.
C12_RemainingTimeInRange ==
    /\ getRemainingTimeMs(Eng, state) \in 0..timeoutMs
    /\ RemainingTimeMs \in 0..timeoutMs

\* Paused after the clock passed the deadline with the timer still waiting.
C12_Witness ==
    /\ phase = "paused" /\ state = "paused"
    /\ stateBeforePauseRef # "idle"
    /\ deadlineAtMsRef < now
    /\ RemainingTimeMs = 0

\* ---- C13 ------------------------------------------------------------------
\* C13: useIdleTimer(options) fails exactly when timeoutMs <= 0,
\* promptBeforeIdleMs < 0 or promptBeforeIdleMs >= timeoutMs, and a failed
\* call has created no engine state, armed no timer and fired nothing; every
\* other configuration is accepted and mounts the engine.
C13_InvalidOptionsRejected ==
    /\ life # "new"
       => (life = "failed" <=> \/ timeoutMs <= 0
                               \/ promptBeforeIdleMs < 0
                               \/ promptBeforeIdleMs >= timeoutMs)
    /\ life = "failed"
       => /\ state = NoState /\ phase = NoState
          /\ timers = {} /\ timerIdRef = NoTimer
          /\ lastActiveAtMs = Null /\ lastIdleAtMs = Null
          /\ fired = << >>
    /\ op = "mount" => phase \in IdleTimerState /\ state = phase

\* A positive timeout rejected because the prompt window is as long as it.
C13_Witness ==
    /\ life = "failed" /\ op = "throw"
    /\ timeoutMs > 0 /\ promptBeforeIdleMs = timeoutMs

\* ---- C14 ------------------------------------------------------------------
\* C14: right after construction the phase is Active exactly when
\* startOnMount is true and initiallyPaused is false, and Paused for the
\* three other combinations; a countdown timer is armed (for the prompt
\* time, or for the deadline when there is no prompt window) only in the
\* Active case.
C14_InitialPhase ==
    op = "mount" =>
        /\ phase = IF startOnMount /\ ~initiallyPaused THEN "active" ELSE "paused"
        /\ state = phase
        /\ IF phase = "active"
           THEN /\ Cardinality(timers) = 1
                /\ Armed(IF promptBeforeIdleMs > 0 THEN "enterPrompting"
                                                   ELSE "enterIdle",
                         StartTime + timeoutMs - promptBeforeIdleMs)
           ELSE timers = {} /\ timerIdRef = NoTimer

\* Constructed with startOnMount and initiallyPaused both set: Paused, no timer.
C14_Witness ==
    /\ op = "mount" /\ startOnMount /\ initiallyPaused
    /\ phase = "paused" /\ timers = {}

\* ---- C15 ------------------------------------------------------------------
\* C15: an app-state change from active to background or inactive does what
\* pause() does, a change from background or inactive to active does what
\* resume() does, and any other change (background to inactive, a repeated
\* signal) changes nothing in the engine and fires nothing.
C15_AppStateDrivesPauseResume ==
    [][op' = "appstate"
       => IF /\ lastAppState = "active"
             /\ lastAppState' \in {"background", "inactive"}
          THEN Commit(pause(Eng, state))
          ELSE IF /\ lastAppState \in {"background", "inactive"}
                  /\ lastAppState' = "active"
               THEN Commit(resume(Eng, state))
               ELSE /\ UNCHANGED <<phase, remainingOnPauseMsRef,
                                   stateBeforePauseRef, deadlineAtMsRef,
                                   promptAtMsRef, lastActiveAtMs, lastIdleAtMs,
                                   timerIdRef, timers>>
                    /\ fired' = << >>]_vars

\* A further background signal reached a running engine and did not pause it.
C15_Witness ==
    /\ op = "appstate" /\ lastAppState = "background"
    /\ state = "active" /\ phase = "active" /\ timers # {}

\* ---- C16 ------------------------------------------------------------------
\* C16: unmounting cancels every pending timer, and after the unmount no
\* onPrompt or onIdle notification fires and the phase does not change.
C16_NothingFiresAfterUnmount ==
    [][/\ op' = "unmount" => timers' = {}
       /\ life = "unmounted"
          => /\ phase' = phase
             /\ ~Fired("onPrompt")' /\ ~Fired("onIdle")']_vars

\* ---- C17 ------------------------------------------------------------------
\* C17: with promptBeforeIdleMs = 0 the phase is never Prompting, onPrompt is
\* never fired and no prompt timer is ever pending, under any sequence of
\* operations, signals and timer expiries; every timer expiry takes the
\* engine to Idle and fires onIdle.
C17_NoPromptWithoutWindow ==
    promptBeforeIdleMs = 0 =>
        /\ phase # "prompting" /\ state # "prompting"
        /\ ~Fired("onPrompt")
        /\ \A t \in timers : t.cb = "enterIdle"
        /\ op = "timer" => phase = "idle" /\ Fired("onIdle")

\* Without a prompt window, a countdown restarted while the app was in the
\* background ran out: Active to Idle.
C17_Witness ==
    /\ promptBeforeIdleMs = 0 /\ ~quiet /\ lastAppState # "active"
    /\ op = "timer" /\ state = "active" /\ phase = "idle"
    /\ activeElapsed >= timeoutMs /\ timeoutMs > 1

\* ---- C18 ------------------------------------------------------------------
\* C18: resume() from Paused records lastActiveAtMs = now when the resulting
\* phase is Active or Prompting, and leaves lastActiveAtMs unchanged when the
\* resulting phase is Idle.
C18_ResumeRecordsLastActive ==
    [][op' = "resume" /\ phase = "paused"
       => /\ phase' \in {"active", "prompting"} => lastActiveAtMs' = now
          /\ phase' = "idle" => lastActiveAtMs' = lastActiveAtMs]_vars

\* ---- C19 ------------------------------------------------------------------
\* C19: resume() from Paused with remainingOnPauseMs <= 0 takes the engine
\* directly to Idle: the phase is Idle, lastIdleAtMs = now, onIdle fires, no
\* onPrompt fires and no timer is left armed.
C19_ResumeExpiredGoesIdle ==
    [][op' = "resume" /\ phase = "paused" /\ remainingOnPauseMsRef <= 0
       => /\ phase' = "idle"
          /\ lastIdleAtMs' = now
          /\ fired' = <<"onIdle">>
          /\ timers' = {} /\ timerIdRef' = NoTimer]_vars

\* ---- C20 ------------------------------------------------------------------
\* C20: lastActiveAtMs and lastIdleAtMs, once set, never become null again
\* and never decrease; every transition into Idle sets lastIdleAtMs to the
\* current time and every reset() sets lastActiveAtMs to the current time.
C20_TimestampsMonotone ==
    [][/\ lastActiveAtMs # Null
          => lastActiveAtMs' # Null /\ lastActiveAtMs' >= lastActiveAtMs
       /\ lastIdleAtMs # Null
          => lastIdleAtMs' # Null /\ lastIdleAtMs' >= lastIdleAtMs
       /\ phase # "idle" /\ phase' = "idle" => lastIdleAtMs' = now
       /\ op' = "reset" => lastActiveAtMs' = now]_vars

\* A reset() after the engine had been Idle since an earlier time.
C20_Witness ==
    /\ op = "reset" /\ Fired("onActive")
    /\ lastIdleAtMs # Null /\ lastIdleAtMs < now
    /\ lastActiveAtMs = now

\* ---- C21 ------------------------------------------------------------------
\* C21: a touch counts as an activity pulse unless events.touch is false; a
\* keyboard-hide counts when events.keyboard is "hide", "both" or unset; a
\* keyboard-show counts only when events.keyboard is "show" or "both"; with
\* events.keyboard = false no keyboard signal counts.  A signal that counts
\* does what an activity pulse does; any other leaves the engine unchanged
\* and fires nothing.
C21_OnlyEnabledSignalsCount ==
    [][op' = "signal"
       => LET counts ==
                  CASE signal' = "touch" -> events.touch \in {"true", "undefined"}
                    [] signal' = "keyboardDidHide" ->
                           events.keyboard \in {"hide", "both", "undefined"}
                    [] signal' = "keyboardDidShow" ->
                           events.keyboard \in {"show", "both"}
          IN  IF counts
              THEN Commit(handleUserActivity(Eng, state))
              ELSE /\ UNCHANGED <<phase, remainingOnPauseMsRef,
                                  stateBeforePauseRef, deadlineAtMsRef,
                                  promptAtMsRef, lastActiveAtMs, lastIdleAtMs,
                                  timerIdRef, timers>>
                   /\ fired' = << >>]_vars

\* With events.keyboard unset, a keyboard-hide brought an Idle engine back
\* to Active.
C21_Witness ==
    /\ op = "signal" /\ signal = "keyboardDidHide"
    /\ events.keyboard = "undefined" /\ events.touch = "false"
    /\ state = "idle" /\ phase = "active" /\ Fired("onActive")

\* ---- C22 ------------------------------------------------------------------
\* C22: while the phase is Idle no timer is pending, and the phase stays Idle
\* until reset() or an activity pulse: no tick, timer expiry, pause(),
\* resume() or app-state change moves the engine out of Idle.
C22_IdleUntilActivity ==
    [][phase = "idle"
       => /\ timers = {}
          /\ phase' = "idle" \/ op' \in {"reset", "pulse"}]_vars

\* ---- C23 ------------------------------------------------------------------
\* C23: getRemainingTimeMs(), whenever it is called, returns
\* remainingOnPauseMs while the phase is Paused, 0 while it is Idle and
\* max(0, deadlineAtMs - now) while it is Active or Prompting.  (The query
\* assigns nothing: it is an operator of the engine's state.)
C23_RemainingTimeByPhase ==
    life = "mounted" =>
        getRemainingTimeMs(Eng, state) =
            CASE phase = "paused" -> remainingOnPauseMsRef
              [] phase = "idle" -> 0
              [] phase \in {"active", "prompting"} ->
                     Max(0, deadlineAtMsRef - now)

\* ---- C24 ------------------------------------------------------------------
\* C24: a timer callback that was pending before reset(), pause() or the
\* unmount never runs afterwards: right after pause() or the unmount no
\* timer is pending, and right after reset() the only pending timer is the
\* one reset() armed.
C24_CancelledTimerNeverFires ==
    /\ op \in {"pause", "unmount"} => timers = {}
    /\ op = "reset"
       => timers = {[id |-> timerIdRef,
                     cb |-> IF promptBeforeIdleMs > 0 THEN "enterPrompting"
                                                      ELSE "enterIdle",
                     due |-> now + timeoutMs - promptBeforeIdleMs]}

\* ---- C25 ------------------------------------------------------------------
\* C25: when a step has notified a handler that calls back into reset() or
\* pause(), the step still ends with at most one pending timer, and with
\* none if the resulting phase is Paused or Idle.
C25_ReentrantHandlerOneTimer ==
    (\E n \in Notification : handlers[n] # "none" /\ Fired(n))
    => /\ Cardinality(timers) <= 1
       /\ phase \in {"paused", "idle"} => timers = {}


\* ---- C26 ------------------------------------------------------------------
\* C26: every operation decides on the phase the step before it produced,
\* re-rendered or not: reset(), pause(), resume() and an activity pulse do
\* what they do when they read the latest phase.
C26_OperationsSeeLatestPhase ==
    [][/\ op' = "reset" => Commit(reset(Eng, phase))
       /\ op' = "pause" => Commit(pause(Eng, phase))
       /\ op' = "resume" => Commit(resume(Eng, phase))
       /\ op' = "pulse" => Commit(handleUserActivity(Eng, phase))]_vars


\* ---- C27 ------------------------------------------------------------------
\* The last step ran the scheduling code: the mount effect, reset(), a timer
\* callback, resume() past its guard or an activity pulse past its guard.
Scheduled ==
    \/ op \in {"mount", "reset", "timer"}
    \/ op = "resume" /\ state = "paused"
    \/ op = "pulse" /\ state # "paused"

\* C27: no timer is armed with a delay <= 0. Right after the scheduling code
\* ran, the timer the engine holds is due later than now, and the phase is
\* Active or Prompting only with a timer armed for the next deadline: when
\* that deadline had already passed the transition was taken at once.
C27_NeverArmsNonPositiveDelay ==
    Scheduled =>
        /\ \A t \in timers : t.id = timerIdRef => t.due > now
        /\ phase = "active" =>
               IF promptBeforeIdleMs > 0
               THEN Armed("enterPrompting", promptAtMsRef)
               ELSE Armed("enterIdle", deadlineAtMsRef)
        /\ phase = "prompting" => Armed("enterIdle", deadlineAtMsRef)

\* A prompt timer that fired at or after the idle deadline: Prompting was
\* entered and Idle followed in the same step, with no timer armed.
C27_Witness ==
    /\ op = "timer"
    /\ fired = <<"onPrompt", "onIdle">>
    /\ phase = "idle"
    /\ timers = {}


\* ---- C28 ------------------------------------------------------------------
\* C28: in every reachable state promptAtMs <= deadlineAtMs.
C28_PromptNotAfterDeadline == promptAtMsRef <= deadlineAtMsRef

\* resume() has just run with less time remaining than the prompt window.
C28_Witness ==
    /\ op = "resume"
    /\ state = "paused"
    /\ remainingOnPauseMsRef < promptBeforeIdleMs
    /\ deadlineAtMsRef = now + remainingOnPauseMsRef
    /\ promptAtMsRef = deadlineAtMsRef


\* ---- C29 ------------------------------------------------------------------
\* C29: with promptBeforeIdleMs > 0 the engine enters Idle only through
\* Prompting: a step into Idle starts in Prompting, or fires onPrompt itself
\* before onIdle, or resumes an engine that was paused in Prompting or Idle.
C29_IdleOnlyAfterPrompting ==
    [][promptBeforeIdleMs > 0 /\ phase # "idle" /\ phase' = "idle"
       => \/ phase = "prompting"
          \/ Fired("onPrompt")'
          \/ phase = "paused" /\ stateBeforePauseRef \in {"prompting", "idle"}]_vars


\* ---- C30 ------------------------------------------------------------------
\* C30: resume() of a paused engine returns it to the phase it was in just
\* before the pause, however long it stayed Paused.
C30_ResumeRestoresPhase ==
    [][op' = "resume" /\ phase = "paused"
       => phase' = stateBeforePauseRef]_vars


\* ---- C31 ------------------------------------------------------------------
\* The engine is in the pause it started in: nothing has resumed or reset it.
InitialPause ==
    /\ life = "mounted"
    /\ phase = "paused"
    /\ state = "paused"
    /\ lastActiveAtMs = Null
    /\ timers = {}
    /\ getRemainingTimeMs(Eng, state) = timeoutMs

\* The first resume() has just run: Active with the whole timeout remaining,
\* a timer armed for the next deadline, and neither onPrompt nor onIdle fired.
FirstResumed ==
    /\ phase = "active"
    /\ getRemainingTimeMs(Eng, phase) = timeoutMs
    /\ IF promptBeforeIdleMs > 0
       THEN Armed("enterPrompting", promptAtMsRef)
       ELSE Armed("enterIdle", deadlineAtMsRef)
    /\ fired = << >>

\* C31: an engine constructed with startOnMount false or initiallyPaused
\* true starts in its initial pause (Paused, getRemainingTimeMs() = timeoutMs,
\* lastActiveAtMs = null), stays in it until it is resumed or reset, and its
\* first resume(), called or driven by the app returning to the foreground,
\* leaves it Active with timeoutMs remaining, a timer armed and nothing fired.
C31_PausedStart ==
    [][/\ (op' = "mount" /\ (initiallyPaused \/ ~startOnMount)) => InitialPause'
       /\ InitialPause =>
              CASE op' = "resume" -> FirstResumed'
                [] op' = "appstate" ->
                       IF lastAppState # "active" /\ lastAppState' = "active"
                       THEN FirstResumed'
                       ELSE InitialPause'
                [] op' \in {"reset", "unmount"} -> TRUE
                [] OTHER -> InitialPause']_vars

\* An engine constructed not to start on mount, later resumed into Active.
C31_Witness ==
    /\ ~startOnMount
    /\ op = "resume"
    /\ state = "paused"
    /\ now > StartTime
    /\ lastIdleAtMs = Null
    /\ FirstResumed


\* ---- C32 ------------------------------------------------------------------
\* C32: onIdle fires at most once per period of inactivity: no step fires it
\* twice, and no step fires it from Idle or from a pause taken in Idle.
C32_OnIdleOncePerInactivity ==
    [][Fired("onIdle")'
       => /\ Count(fired', "onIdle") = 1
          /\ phase # "idle"
          /\ ~(phase = "paused" /\ stateBeforePauseRef = "idle")]_vars


\* ---- C33 ------------------------------------------------------------------
\* C33: onActive never fires twice in a row: every onActive is the first
\* notification ever fired or follows an onPrompt or an onIdle.
C33_OnActiveNeverTwiceInARow ==
    [][\A i \in 1..Len(fired') :
           fired'[i] = "onActive"
           => IF i = 1 THEN ~activeLast ELSE fired'[i - 1] # "onActive"]_vars


\* ---- C34 ------------------------------------------------------------------
\* C34: while the hook is mounted and the phase is Active or Prompting,
\* exactly one timer is pending, and it is the one the engine holds.
C34_CountdownNeverStuck ==
    life = "mounted" /\ phase \in {"active", "prompting"}
    => /\ Cardinality(timers) = 1
       /\ \E t \in timers : t.id = timerIdRef


\* ---- C35 ------------------------------------------------------------------
\* The last step was a reset, an activity pulse, a pause or a background
\* signal.
Disturbed ==
    \/ op \in {"reset", "pulse", "pause"}
    \/ op = "appstate" /\ lastAppState # "active"

\* C35: if from some point on the hook stays mounted, the engine is not
\* Paused and no reset, activity pulse, pause or background signal occurs,
\* then onIdle fires in Idle and from some point on the engine stays Idle.
C35_EventuallyIdle ==
    <>[](life = "mounted" /\ phase # "paused" /\ ~Disturbed)
    => /\ <>(phase = "idle" /\ Fired("onIdle"))
       /\ <>[](phase = "idle")

\* An engine nobody touched has reached Idle and fired onIdle.
C35_Witness ==
    /\ quiet
    /\ op = "timer"
    /\ phase = "idle"
    /\ Fired("onIdle")
    /\ timers = {}


\* ---- C36 ------------------------------------------------------------------
\* C36: while the engine is Paused with stateBeforePauseRef = Idle the
\* remaining time is 0, and a resume() that ran on an engine paused in Idle
\* has left it Idle.
C36_PausedFromIdleHasNoTimeLeft ==
    /\ phase = "paused" /\ stateBeforePauseRef = "idle"
       => remainingOnPauseMsRef = 0
    /\ op = "resume" /\ state = "paused" /\ stateBeforePauseRef = "idle"
       => phase = "idle"

====
